---- MODULE Spec2Model ----
(***************************************************************************)
(* TracedTask (src/cpp/traced_task/main.cpp): an eagerly started coroutine *)
(* task that captures a stack trace at creation, stores the outcome of its *)
(* body, reports an unhandled exception to the crash sink at its final     *)
(* suspend point and re-raises it to whoever retrieves the result.         *)
(*                                                                         *)
(* A driver operation (creating a task, run(), result(), a move, a         *)
(* destruction) runs synchronously on one thread, so each is one action:   *)
(* the coroutine bodies it executes, the tasks those bodies create and     *)
(* await, and the reports they cause are all part of that action.          *)
(***************************************************************************)
EXTENDS Integers, Sequences, FiniteSets, TLC

\* ------------------------------------------------------------------ bounds
MaxTasks == 2       \* TracedTask objects the driver holds at a time
MaxCreates == 2     \* coroutine calls the driver makes in one run
MaxFrames == 3      \* coroutine frames allocated in one run
MaxSuspends == 2    \* co_await std::suspend_always{} in one body
MaxRawFrames == 3   \* return addresses above initial_suspend() in a capture
MaxTokens == 2      \* SubscriptionToken objects main holds at a time
PoolSize == 2       \* worker threads of the thread_pool
MaxItems == 2       \* work items main submits
MaxListenerIds == 2 \* listener ids given out before main stops subscribing

\* template <int DEPTH_MAX = 128> current()
DEPTH_MAX == 128

\* a TracedTask whose handle is nullptr
NULL == 0

VARIABLES
  frames,      \* coroutine frames by handle (1..Len), the destroyed ones kept
  tasks,       \* the driver's TracedTask objects: [alive, handle]
  sink,        \* the calls firebase::crashlytics::RecordException received
  log,         \* history of await_resume calls and reports, in order
  proc,        \* "running", "terminated" (std::terminate) or "crashed"
  returned,    \* what the driver's last call gave it: result() of task t, else nothing
  sinkFaulty,  \* whether RecordException may throw in this run
  capture,     \* a call of my_backtrace::current() and toString() on its own
  dispatcher,  \* the Dispatcher main made, main's tokens and its last call
  pool         \* the thread_pool main made, its queue, its workers and main

vars == <<frames, tasks, sink, log, proc, returned, sinkFaulty, capture, dispatcher, pool>>

\* ------------------------------------------------- coroutine bodies (input)
\* A body is a sequence of instructions; every instruction has the same
\* fields so that bodies can be compared.
CatchKinds == {"none", "std"}

\* co_await std::suspend_always{};
Suspend == [op |-> "suspend", callee |-> <<>>, catch |-> "none", std |-> TRUE, k |-> 0, m |-> 0]
\* try { acc = co_await callee(); } catch (c) {}
Await(b, c) == [op |-> "await", callee |-> b, catch |-> c, std |-> TRUE, k |-> 0, m |-> 0]
\* try { acc = co_await TracedTask<int>{}; } catch (c) {}
AwaitEmpty(c) == [op |-> "awaitEmpty", callee |-> <<>>, catch |-> c, std |-> TRUE, k |-> 0, m |-> 0]
\* throw std::runtime_error{...} (isStd) or throw of a type not derived from std::exception
Throw(isStd) == [op |-> "throw", callee |-> <<>>, catch |-> "none", std |-> isStd, k |-> 0, m |-> 0]
\* co_return k + m * acc;
Return(k, m) == [op |-> "return", callee |-> <<>>, catch |-> "none", std |-> TRUE, k |-> k, m |-> m]

RECURSIVE Suspends(_)
Suspends(n) == IF n = 0 THEN <<>> ELSE <<Suspend>> \o Suspends(n - 1)

\* bodies that await no task: n suspensions, then return 42 or throw
Leaves ==
  { Suspends(n) \o <<e>> : n \in 0..MaxSuspends,
                           e \in {Return(42, 0), Throw(TRUE), Throw(FALSE)} }

\* bodies that await a task holding no computation
EmptyAwaiters == { <<AwaitEmpty(c), Return(1, 0)>> : c \in CatchKinds }

\* secondLevelTask: co_return result * 2; handledExceptionTask: co_return 1
AwaiterReturn(c) == IF c = "none" THEN Return(0, 2) ELSE Return(1, 0)

RECURSIVE BodiesUpTo(_)
BodiesUpTo(d) ==
  IF d <= 1 THEN Leaves \cup EmptyAwaiters
  ELSE LET inner == BodiesUpTo(d - 1)
       IN inner \cup { <<Await(b, c), AwaiterReturn(c)>> : b \in inner, c \in CatchKinds }

\* a body nested deeper than MaxFrames could never be called
Bodies == BodiesUpTo(MaxFrames)

\* the frames a call of body b allocates, itself included
RECURSIVE FrameCount(_)
FrameCount(b) ==
  IF b = <<>> THEN 0
  ELSE (IF Head(b).op = "await" THEN FrameCount(Head(b).callee) ELSE 0)
       + (IF Len(b) = 1 THEN 1 ELSE FrameCount(Tail(b)))

\* ------------------------------------------------------------ my_backtrace
\* A code address: the function it lies in (and, for a coroutine, its body).
Addr(fn, b) == [fn |-> fn, body |-> b]
MainAddr == Addr("main", <<>>)
RunAddr == Addr("run", <<>>)
AwaitSuspendAddr == Addr("await_suspend", <<>>)

\* What the platform does in a run: whether ::backtrace finds any frame and
\* whether ::backtrace_symbols can build its table (it returns null if not).
Providers == [unwinds : BOOLEAN, symtab : BOOLEAN]
Working == [unwinds |-> TRUE, symtab |-> TRUE]

\* ::backtrace(callstack, size) called from current(), itself called from
\* initial_suspend(), with `stk` the return addresses above them: at most
\* `size` addresses, innermost first; none when the platform cannot unwind.
backtrace(stk, size, prov) ==
  LET all == <<Addr("current", <<>>), Addr("initial_suspend", <<>>)>> \o stk
  IN IF ~prov.unwinds THEN <<>>
     ELSE IF Len(all) <= size THEN all ELSE SubSeq(all, 1, size)

\* ::backtrace_symbols: the provider's raw text for an address ("": none).
backtrace_symbols(a) == IF a.fn \in {"thunk", "jit"} THEN "" ELSE a.fn

\* ::dladdr: which addresses resolve, and to what ("" is a null pointer, fbase
\* says whether dli_fbase is set, delta is address - dli_fbase). Coroutine
\* bodies and thunks resolve to a mangled name, main and jit code to a name
\* that is not a mangled one, stripped code to an object without a symbol,
\* the rest to nothing.
dladdr(a) ==
  CASE a.fn = "coroutine" -> [ok |-> TRUE, dli_sname |-> "_Z9coroutinev", dli_fname |-> "a.out", fbase |-> TRUE, delta |-> 16]
    [] a.fn = "main"      -> [ok |-> TRUE, dli_sname |-> "main", dli_fname |-> "a.out", fbase |-> TRUE, delta |-> 0]
    [] a.fn = "stripped"  -> [ok |-> TRUE, dli_sname |-> "", dli_fname |-> "libfoo.so", fbase |-> TRUE, delta |-> 8]
    [] a.fn = "thunk"     -> [ok |-> TRUE, dli_sname |-> "_Z5thunkv", dli_fname |-> "", fbase |-> FALSE, delta |-> 4]
    [] a.fn = "jit"       -> [ok |-> TRUE, dli_sname |-> "jit_entry", dli_fname |-> "", fbase |-> FALSE, delta |-> 0]
    [] OTHER              -> [ok |-> FALSE, dli_sname |-> "", dli_fname |-> "", fbase |-> FALSE, delta |-> 0]

\* abi::__cxa_demangle: status 0 and the demangled name, or a non-zero status
\* and a null pointer.
cxa_demangle(sname) ==
  CASE sname = "_Z9coroutinev" -> [status |-> 0, name |-> "coroutine()"]
    [] sname = "_Z5thunkv"     -> [status |-> 0, name |-> "thunk()"]
    [] OTHER                   -> [status |-> 2, name |-> ""]

\* util::ptr_to_string: a null pointer (here "") becomes the empty string.
ptr_to_string(p) == p

NoSymbolicInfo == [symbol |-> "", fileName |-> "", offset |-> 0]

intoSymbolicInfo(address, symbol_backtrace) ==
  LET dl_info == dladdr(address)
      dem == cxa_demangle(dl_info.dli_sname)
      symbol == IF dl_info.dli_sname = "" THEN ptr_to_string(symbol_backtrace)
                ELSE IF dem.status # 0 THEN ptr_to_string(dem.name)
                     ELSE ptr_to_string(symbol_backtrace)
  IN IF ~dl_info.ok THEN NoSymbolicInfo
     ELSE [symbol |-> symbol, fileName |-> ptr_to_string(dl_info.dli_fname),
           offset |-> IF dl_info.fbase THEN dl_info.delta ELSE 0]

\* faulty variant: current() whose loop starts at the second frame
current_skipping_one(stk, depth, prov) ==
  LET callstack == backtrace(stk, depth, prov)
      nframes == Len(callstack)
  IN IF nframes <= 0 THEN <<>>
     ELSE IF ~prov.symtab THEN <<>>
     ELSE [i \in 1..(IF nframes > 1 THEN nframes - 1 ELSE 0) |->
             [address |-> callstack[i + 1],
              symbolicInfo |-> intoSymbolicInfo(callstack[i + 1],
                                                backtrace_symbols(callstack[i + 1]))]]

\* my_backtrace::current<depth>(): nothing when there are no frames or no
\* symbol table, else the frames from the third on.
current(stk, depth, prov) ==
  LET callstack == backtrace(stk, depth, prov)
      nframes == Len(callstack)
  IN IF nframes <= 0 THEN <<>>
     ELSE IF ~prov.symtab THEN <<>>
     ELSE [i \in 1..(IF nframes > 2 THEN nframes - 2 ELSE 0) |->
             [address |-> callstack[i + 2],
              symbolicInfo |-> intoSymbolicInfo(callstack[i + 2],
                                                backtrace_symbols(callstack[i + 2]))]]

\* faulty variant: toString that writes the offset of every frame
toString_every_offset(stackTrace) ==
  [i \in 1..Len(stackTrace) |->
     LET frame == stackTrace[i]
     IN [index |-> i - 1,
         address |-> frame.address,
         symbol |-> IF frame.symbolicInfo.symbol # "" THEN frame.symbolicInfo.symbol ELSE "???",
         plusOffset |-> <<frame.symbolicInfo.offset>>,
         inFile |-> IF frame.symbolicInfo.fileName # "" THEN <<frame.symbolicInfo.fileName>> ELSE <<>>]]

\* my_backtrace::toString: one line per frame, in frame order. A line is the
\* text written for the frame: "#" index ": " address " " symbol-or-"???",
\* then " +" offset when the offset is positive, then " in " fileName when the
\* file name is not empty (an absent part is the empty sequence).
toString(stackTrace) ==
  [i \in 1..Len(stackTrace) |->
     LET frame == stackTrace[i]
     IN [index |-> i - 1,
         address |-> frame.address,
         symbol |-> IF frame.symbolicInfo.symbol # "" THEN frame.symbolicInfo.symbol ELSE "???",
         plusOffset |-> IF frame.symbolicInfo.offset > 0 THEN <<frame.symbolicInfo.offset>> ELSE <<>>,
         inFile |-> IF frame.symbolicInfo.fileName # "" THEN <<frame.symbolicInfo.fileName>> ELSE <<>>]]

\* ---------------------------------------------------------------- failures
\* An exception object: what() (or "" for a type not derived from
\* std::exception), whether it derives from std::exception, and the coroutine
\* frame whose code threw it (0: thrown in the driver).
Exc(what, isStd, origin) == [what |-> what, std |-> isStd, origin |-> origin]
\* a null std::exception_ptr
NoExc == Exc("", FALSE, 0)
NotCompleted(by) == Exc("TracedTask not completed", TRUE, by)
BodyFailure(isStd, by) ==
  IF isStd THEN Exc("Exception from third level task", TRUE, by) ELSE Exc("", FALSE, by)

\* does a handler of kind c catch e: "std" is catch (const std::exception &)
Catches(c, e) == c = "std" /\ e.std

\* what an operation gave its caller
NoOutcome == [kind |-> "none", value |-> 0, e |-> NoExc]
Value(v) == [kind |-> "value", value |-> v, e |-> NoExc]
Raise(e) == [kind |-> "raise", value |-> 0, e |-> e]
Bool(b) == [kind |-> IF b THEN "true" ELSE "false", value |-> 0, e |-> NoExc]

\* ------------------------------------------------------------ crash sink
\* firebase::crashlytics::RecordException. A faulty sink throws: the exception
\* leaves the handler of reportExceptionToFirebase and then the noexcept
\* await_suspend of the final awaiter, which is std::terminate.
RecordException(S, name, reason, stack_trace, task, env) ==
  [S EXCEPT !.sink = Append(@, [name |-> name, reason |-> reason,
                                 stack_trace |-> stack_trace, task |-> task]),
            !.log = Append(@, [ev |-> "report", by |-> task, of |-> task, ready |-> TRUE]),
            !.proc = IF env.sinkOk THEN @ ELSE "terminated"]

\* `task` is the frame the report is made for (bookkeeping, not passed in C++).
reportExceptionToFirebase(S, exceptionPtr, stackTrace, task, env) ==
  IF exceptionPtr = NoExc THEN S
  ELSE IF exceptionPtr.std
       THEN RecordException(S, "St13runtime_error", exceptionPtr.what,
                            toString(stackTrace), task, env)
       ELSE RecordException(S, "Unknown Exception", "Unhandled exception of unknown type",
                            toString(stackTrace), task, env)

\* ------------------------------------------------------ TracedTask<int>
\* The operators below transform S, the program state
\* [frames, tasks, sink, log, proc]; env holds the choices the environment
\* makes during the operation: env.sinkOk (the sink does not throw) and
\* env.ub (what resuming through an invalid handle does: "crash" or "noop").
\* stk is the call stack (return addresses, innermost first).

\* faulty variant: std::variant<Success, std::exception_ptr>, which a new
\* promise holds as Success{}
NewFrame_succeeded(b, parent) ==
  [body |-> b, pc |-> 1, acc |-> 0, done |-> FALSE,
   result |-> [tag |-> "Success", e |-> NoExc, value |-> 0],
   stackTrace |-> <<>>, destroyed |-> 0, parent |-> parent]

\* promise_type as constructed: the variant holds a null exception_ptr.
\* parent is the frame whose body made the call (0: the driver).
NewFrame(b, parent) ==
  [body |-> b, pc |-> 1, acc |-> 0, done |-> FALSE,
   result |-> [tag |-> "exception", e |-> NoExc, value |-> 0],
   stackTrace |-> <<>>, destroyed |-> 0, parent |-> parent]

\* faulty variant: std::suspend_always initial_suspend() (a lazily started task)
initial_suspend_lazy(S, h, stk) ==
  [S |-> [S EXCEPT !.frames[h].stackTrace = current(stk, DEPTH_MAX, Working)], suspend |-> TRUE]

\* std::suspend_never initial_suspend(): captures the trace, does not suspend.
initial_suspend(S, h, stk) ==
  [S |-> [S EXCEPT !.frames[h].stackTrace = current(stk, DEPTH_MAX, Working)], suspend |-> FALSE]

\* faulty variant: return_value leaves the variant as it was
return_value_lost(S, h, value) == S

return_value(S, h, value) ==
  [S EXCEPT !.frames[h].result = [tag |-> "Success", e |-> NoExc, value |-> value]]

\* faulty variant: unhandled_exception that does not store the exception
unhandled_exception_dropping(S, h, e) == S

\* faulty variant: unhandled_exception reports as well as the final awaiter
unhandled_exception_reporting(S, h, e) ==
  reportExceptionToFirebase(
    [S EXCEPT !.frames[h].result = [tag |-> "exception", e |-> e, value |-> 0]],
    e, S.frames[h].stackTrace, h, [sinkOk |-> TRUE, ub |-> "noop"])

unhandled_exception(S, h, e) ==
  [S EXCEPT !.frames[h].result = [tag |-> "exception", e |-> e, value |-> 0]]

\* faulty variant: a final awaiter that reports only what its own body threw
final_suspend_origin_only(S, h, env) ==
  LET S1 == [S EXCEPT !.frames[h].done = TRUE]
      p == S1.frames[h]
  IN IF p.result.tag = "exception" /\ p.result.e.origin = h
     THEN reportExceptionToFirebase(S1, p.result.e, p.stackTrace, h, env)
     ELSE S1

\* faulty variant: a final awaiter that leaves the reporting to the task the
\* driver created: that task reports itself and then the failed tasks below it
final_suspend_deferring(S, h, env) ==
  LET S1 == [S EXCEPT !.frames[h].done = TRUE]
      RECURSIVE IsUnder(_, _)
      IsUnder(d, a) == d = a \/ (d # 0 /\ IsUnder(S1.frames[d].parent, a))
      RECURSIVE ReportFrom(_, _)
      ReportFrom(T, d) ==
        IF d > Len(T.frames) THEN T
        ELSE LET p == T.frames[d]
             IN ReportFrom(IF IsUnder(d, h) /\ p.done /\ p.result.tag = "exception"
                           THEN reportExceptionToFirebase(T, p.result.e, p.stackTrace, d, env)
                           ELSE T,
                           d + 1)
  IN IF S1.frames[h].result.tag = "exception" /\ S1.frames[h].parent = 0
     THEN ReportFrom(S1, h)
     ELSE S1

\* faulty variant: a final awaiter that reports the trace of the task whose
\* body threw the exception
final_suspend_origin_trace(S, h, env) ==
  LET S1 == [S EXCEPT !.frames[h].done = TRUE]
      p == S1.frames[h]
  IN IF p.result.tag = "exception"
     THEN reportExceptionToFirebase(S1, p.result.e,
                                    IF p.result.e.origin # 0
                                    THEN S1.frames[p.result.e.origin].stackTrace
                                    ELSE p.stackTrace,
                                    h, env)
     ELSE S1

\* faulty variant: a final awaiter that does not report
final_suspend_unreported(S, h, env) == [S EXCEPT !.frames[h].done = TRUE]

\* final_suspend(): the coroutine is suspended at its final suspend point
\* (done() is true), then final_awaiter::await_suspend reports.
final_suspend(S, h, env) ==
  LET S1 == [S EXCEPT !.frames[h].done = TRUE]
      p == S1.frames[h]
  IN IF p.result.tag = "exception"
     THEN reportExceptionToFirebase(S1, p.result.e, p.stackTrace, h, env)
     ELSE S1

\* handle.destroy()
handle_destroy(S, h) == [S EXCEPT !.frames[h].destroyed = @ + 1]

\* faulty variant: a move constructor that copies the handle and leaves other's
TracedTask_move_ctor_copying(S, t, u) ==
  [S EXCEPT !.tasks = [@ EXCEPT ![t] = [alive |-> TRUE, handle |-> S.tasks[u].handle]]]

\* TracedTask(TracedTask &&other): object t constructed from object u
TracedTask_move_ctor(S, t, u) ==
  [S EXCEPT !.tasks = [@ EXCEPT ![t] = [alive |-> TRUE, handle |-> S.tasks[u].handle],
                                ![u] = [alive |-> TRUE, handle |-> NULL]]]

\* TracedTask &operator=(TracedTask &&other): object t assigned from object u
TracedTask_move_assign(S, t, u) ==
  IF t # u
  THEN LET S1 == IF S.tasks[t].handle # NULL THEN handle_destroy(S, S.tasks[t].handle) ELSE S
       IN [S1 EXCEPT !.tasks = [@ EXCEPT ![t] = [alive |-> TRUE, handle |-> S.tasks[u].handle],
                                         ![u] = [alive |-> TRUE, handle |-> NULL]]]
  ELSE S

is_ready(S, h) == h # NULL /\ S.frames[h].done

\* faulty variant: result() that throws a new exception for a failed task
result_rewrapping(S, h, by) ==
  IF ~is_ready(S, h) THEN Raise(NotCompleted(by))
  ELSE LET r == S.frames[h].result
       IN IF r.tag = "Success" THEN Value(r.value)
          ELSE Raise(Exc("TracedTask failed", TRUE, by))

\* result(): what the call gives its caller; `by` is the frame whose body
\* made the call (0: the driver).
result(S, h, by) ==
  IF ~is_ready(S, h) THEN Raise(NotCompleted(by))
  ELSE LET r == S.frames[h].result
       IN IF r.tag = "Success" THEN Value(r.value) ELSE Raise(r.e)

RECURSIVE Exec(_, _, _, _)

\* handle.resume(): undefined on a null handle, on a destroyed frame and on a
\* coroutine at its final suspend point.
handle_resume(S, h, stk, env) ==
  IF h = NULL \/ S.frames[h].destroyed > 0 \/ S.frames[h].done
  THEN IF env.ub = "crash" THEN [S EXCEPT !.proc = "crashed"] ELSE S
  ELSE Exec(S, h, <<Addr("coroutine", S.frames[h].body)>> \o stk, env)

\* faulty variant: run() that resumes whenever there is a handle
run_unguarded(S, h, stk, env) ==
  IF h # NULL THEN handle_resume(S, h, <<RunAddr>> \o stk, env) ELSE S

\* run(): resumes only a task that has a handle and is not done
run(S, h, stk, env) ==
  IF h # NULL /\ ~S.frames[h].done THEN handle_resume(S, h, <<RunAddr>> \o stk, env) ELSE S

await_ready(S, h) == is_ready(S, h)

\* resumes the awaited task once and hands control back to the continuation
await_suspend(S, h, stk, env) == handle_resume(S, h, <<AwaitSuspendAddr>> \o stk, env)

await_resume(S, h, by) == result(S, h, by)

\* faulty variant: a destructor that first lets an unfinished body run on
TracedTask_dtor_draining(S, h) ==
  IF h # NULL
  THEN handle_destroy(run(S, h, <<MainAddr>>, [sinkOk |-> TRUE, ub |-> "noop"]), h)
  ELSE S

\* ~TracedTask() of a task object whose handle is h
TracedTask_dtor(S, h) == IF h # NULL THEN handle_destroy(S, h) ELSE S

\* co_await on a temporary task with handle g, in the body of frame `by`: the
\* temporary is destroyed when the expression ends, normally or by unwinding.
co_await(S, g, by, stk, env) ==
  IF S.proc # "running" THEN [S |-> S, out |-> NoOutcome]
  ELSE LET S1 == IF await_ready(S, g) THEN S ELSE await_suspend(S, g, stk, env)
       IN IF S1.proc # "running" THEN [S |-> S1, out |-> NoOutcome]
          ELSE LET out == await_resume(S1, g, by)
                   S2 == [S1 EXCEPT !.log = Append(@, [ev |-> "await_resume", by |-> by,
                                                       of |-> g, ready |-> is_ready(S1, g)])]
               IN [S |-> TracedTask_dtor(S2, g), out |-> out]

\* faulty variant: a coroutine call that returns at the initial suspend point
Call_unstarted(S, b, parent, stk, env) ==
  LET h == Len(S.frames) + 1
      here == <<Addr("coroutine", b)>> \o stk
  IN initial_suspend([S EXCEPT !.frames = Append(@, NewFrame(b, parent))], h, here).S

\* A call of the coroutine function with body b: allocates the frame, runs
\* initial_suspend and then the body up to its first suspension or its end.
Call(S, b, parent, stk, env) ==
  LET h == Len(S.frames) + 1
      here == <<Addr("coroutine", b)>> \o stk
      r == initial_suspend([S EXCEPT !.frames = Append(@, NewFrame(b, parent))], h, here)
  IN IF r.suspend THEN r.S ELSE Exec(r.S, h, here, env)

\* Runs the body of frame h from its current instruction up to the next
\* suspension or the final suspend point.
Exec(S, h, stk, env) ==
  IF S.proc # "running" THEN S
  ELSE
    LET f == S.frames[h]
        ins == f.body[f.pc]
    IN CASE ins.op = "suspend" -> [S EXCEPT !.frames[h].pc = @ + 1]
         [] ins.op = "return" ->
              final_suspend(return_value(S, h, ins.k + ins.m * f.acc), h, env)
         [] ins.op = "throw" ->
              final_suspend(unhandled_exception(S, h, BodyFailure(ins.std, h)), h, env)
         [] OTHER ->
              LET S1 == IF ins.op = "await" THEN Call(S, ins.callee, h, stk, env) ELSE S
                  g == IF ins.op = "await" THEN Len(S.frames) + 1 ELSE NULL
                  r == co_await(S1, g, h, stk, env)
              IN IF r.S.proc # "running" THEN r.S
                 ELSE IF r.out.kind = "value"
                 THEN Exec([r.S EXCEPT !.frames[h].acc = r.out.value, !.frames[h].pc = @ + 1],
                           h, stk, env)
                 ELSE IF Catches(ins.catch, r.out.e)
                 THEN Exec([r.S EXCEPT !.frames[h].pc = @ + 1], h, stk, env)
                 ELSE final_suspend(unhandled_exception(r.S, h, r.out.e), h, env)

\* ============================================================== Dispatcher
\* src/cpp/extensible_event_listeners/main.cpp: listeners subscribe to one
\* event type of a closed set and get a SubscriptionToken; dispatch(e) calls
\* the listeners of e's type. Everything runs on the calling thread, so a
\* call by main is one action, the listeners it invokes (and what they call)
\* included.

\* event_index<MouseClicked>() and event_index<KeyPressed>()
MouseClicked == 0
KeyPressed == 1
EventIds == {MouseClicked, KeyPressed}

\* What a listener does when it is invoked, as a sequence of statements.
\* dispatcher->subscribe<e>([](auto const &) {}).detach(), inside try/catch or not
LSubscribe(e, catch) == [op |-> "subscribe", event |-> e, catch |-> catch]
\* dispatcher->dispatch(e{})
LDispatch(e) == [op |-> "dispatch", event |-> e, catch |-> FALSE]
\* throw std::runtime_error{...}
LThrow == [op |-> "throw", event |-> 0, catch |-> FALSE]

\* the listeners main may subscribe; <<>> only prints
ListenerBodies ==
  { <<>>, <<LThrow>>,
    <<LSubscribe(MouseClicked, FALSE)>>,
    <<LDispatch(KeyPressed), LSubscribe(MouseClicked, TRUE)>> }

\* a listener that dispatches an event of its own type never returns
Dispatches(body, e) == \E i \in 1..Len(body) : body[i] = LDispatch(e)

IllegalSubscribeException == Exc("can't subscribe inside a listener", TRUE, 0)
ListenerFailure == Exc("listener failed", TRUE, 0)

\* SubscriptionToken: m_dispatcher is whether the weak_ptr refers to the
\* dispatcher (a moved-from token's does not).
SubscriptionToken(handle, event_id, listener_id) ==
  [alive |-> TRUE, m_dispatcher |-> handle, m_event_id |-> event_id,
   m_listener_id |-> listener_id, m_detached |-> FALSE]
NoToken ==
  [alive |-> FALSE, m_dispatcher |-> FALSE, m_event_id |-> 0,
   m_listener_id |-> 0, m_detached |-> FALSE]

\* Dispatcher::make(). Besides the members, D holds the bookkeeping of the
\* call of main in progress: iterating, the event types whose listeners are
\* being iterated (outermost first); calls, the listener invocations made;
\* subs, the subscribe calls made; proc, "running" or "crashed".
NewDispatcher ==
  [m_listeners |-> [e \in EventIds |-> <<>>],
   m_next_listener_id |-> 0,
   is_dispatching |-> FALSE,
   iterating |-> <<>>, calls |-> <<>>, subs |-> <<>>, proc |-> "running"]

\* Dispatcher::subscribe<E>(listener): gives the token, or throws.
subscribe(D, e, body) ==
  IF D.is_dispatching
  THEN [D |-> [D EXCEPT !.subs = Append(@, [depth |-> Len(D.iterating), event |-> e,
                                            threw |-> TRUE, id |-> 0])],
        out |-> Raise(IllegalSubscribeException),
        token |-> NoToken]
  ELSE LET listener_id == D.m_next_listener_id + 1
       IN [D |-> [D EXCEPT !.m_next_listener_id = listener_id,
                           !.m_listeners[e] = Append(@, [id |-> listener_id, body |-> body]),
                           !.subs = Append(@, [depth |-> Len(D.iterating), event |-> e,
                                               threw |-> FALSE, id |-> listener_id])],
           out |-> NoOutcome,
           token |-> SubscriptionToken(TRUE, e, listener_id)]

\* std::erase_if(listeners, id == listener_id)
erase_if(listeners, listener_id) ==
  SelectSeq(listeners, LAMBDA l : l.id # listener_id)

\* faulty variant: unsubscribe that clears the listeners of the event type
Dispatcher_unsubscribe_clearing(D, token) ==
  IF token.m_detached
  THEN [D EXCEPT !.m_listeners[token.m_event_id] = <<>>]
  ELSE D

\* Dispatcher::unsubscribe(token)
Dispatcher_unsubscribe(D, token) ==
  IF token.m_detached
  THEN [D EXCEPT !.m_listeners[token.m_event_id] = erase_if(@, token.m_listener_id)]
  ELSE D

\* SubscriptionToken::detach() &&
detach(token) == [token EXCEPT !.m_detached = TRUE]

\* SubscriptionToken::unsubscribe(): the dispatcher and the token afterwards
unsubscribe(D, token) ==
  IF ~token.m_detached
  THEN LET marked == [token EXCEPT !.m_detached = TRUE]
       IN [D |-> IF marked.m_dispatcher THEN Dispatcher_unsubscribe(D, marked) ELSE D,
           token |-> marked]
  ELSE [D |-> D, token |-> token]

\* SubscriptionToken(SubscriptionToken &&) = default: the new token and what
\* is left of the other (its weak_ptr is empty)
Token_move(other) ==
  [to |-> other, from |-> [other EXCEPT !.m_dispatcher = FALSE]]

RECURSIVE for_each(_, _, _, _, _)
RECURSIVE invoke(_, _, _, _)

\* Dispatcher::do_dispatch(e): the listeners of e from first to last, then
\* their number. An exception of a listener leaves the loop and the function.
do_dispatch(D, e, env) ==
  LET r == for_each([D EXCEPT !.iterating = Append(@, e)], e, 1, Len(D.m_listeners[e]), env)
      left == [r.D EXCEPT !.iterating = SubSeq(@, 1, Len(@) - 1)]
  IN IF r.out.kind = "raise" \/ r.D.proc # "running"
     THEN [D |-> left, out |-> r.out]
     ELSE [D |-> left, out |-> Value(Len(r.D.m_listeners[e]))]

\* Dispatcher::dispatch(e): the flag is cleared only when do_dispatch returns.
dispatch(D, e, env) ==
  LET r == do_dispatch([D EXCEPT !.is_dispatching = TRUE], e, env)
  IN IF r.out.kind = "raise" \/ r.D.proc # "running"
     THEN r
     ELSE [D |-> [r.D EXCEPT !.is_dispatching = FALSE], out |-> r.out]

\* std::ranges::for_each(listeners, ...): begin and end are taken once, so
\* the loop runs over the positions i..n the vector had when it started.
for_each(D, e, i, n, env) ==
  IF D.proc # "running" \/ i > n THEN [D |-> D, out |-> NoOutcome]
  ELSE LET listener == D.m_listeners[e][i]
           D1 == [D EXCEPT !.calls = Append(@, [id |-> listener.id, event |-> e,
                                                depth |-> Len(D.iterating)])]
           r == invoke(D1, listener.body, 1, env)
       IN IF r.out.kind = "raise" THEN r ELSE for_each(r.D, e, i + 1, n, env)

\* a listener's body from statement pc on. A push_back on a vector that is
\* being iterated invalidates the iterators of the loop: undefined behaviour,
\* here a crash or a loop that goes on over the old positions.
invoke(D, body, pc, env) ==
  IF D.proc # "running" \/ pc > Len(body) THEN [D |-> D, out |-> NoOutcome]
  ELSE
    LET ins == body[pc]
    IN CASE ins.op = "throw" -> [D |-> D, out |-> Raise(ListenerFailure)]
         [] ins.op = "dispatch" ->
              LET r == dispatch(D, ins.event, env)
              IN IF r.out.kind = "raise" THEN r ELSE invoke(r.D, body, pc + 1, env)
         [] OTHER ->
              LET r == subscribe(D, ins.event, <<>>)
                  invalid == \E k \in 1..Len(D.iterating) : D.iterating[k] = ins.event
              IN IF r.out.kind = "raise"
                 THEN IF ins.catch THEN invoke(r.D, body, pc + 1, env)
                      ELSE [D |-> r.D, out |-> r.out]
                 ELSE IF invalid /\ env.ub = "crash"
                 THEN [D |-> [r.D EXCEPT !.proc = "crashed"], out |-> NoOutcome]
                 ELSE invoke(r.D, body, pc + 1, env)

\* ============================================================= thread_pool
\* src/unnamed/part_001: a thread_pool of std::jthread workers that drain an
\* unbounded_sync_queue of work items. Threads are 1..PoolSize (the workers)
\* and MainThread; a step is what one thread does between two points where
\* another thread can see or change what it shares.
Workers == 1..PoolSize
MainThread == PoolSize + 1
Items == 1..MaxItems

\* thread_pool pool{size}: the state when the constructor returns. Each
\* worker is a std::jthread that was created and has not run yet; it holds a
\* reference to the member pending_work_, not a copy.
\* entries_, mtx_ (the thread that holds it, NULL: none): unbounded_sync_queue;
\* pending_work_: whether the member shared_ptr is within its lifetime;
\* workers_[w]: position of the worker (pc), whether stop was requested of
\* its jthread (stop), the item it took (work);
\* main: position of main, joining: the worker main destroys;
\* submitted, taken, executed, underflow: history (items given to submit,
\* how often an item was taken and executed, a front() of an empty queue).
thread_pool(size) ==
  [entries_ |-> <<>>, mtx_ |-> NULL, pending_work_ |-> TRUE,
   workers_ |-> [w \in 1..size |-> [pc |-> "created", stop |-> FALSE, work |-> NULL]],
   main |-> "alive", joining |-> NULL,
   submitted |-> 0,
   taken |-> [i \in Items |-> 0], executed |-> [i \in Items |-> 0],
   underflow |-> FALSE, proc |-> "running"]

\* faulty variant: a mutex any thread gets at once
lockable_always(p) == TRUE

\* std::lock_guard / std::unique_lock on mtx_: the caller blocks until this holds
lockable(p) == p.mtx_ = NULL

\* faulty variant: notify_all that wakes nobody
notify_none(p) == p

\* nonempty_cond.notify_all(): every thread blocked in wait goes on to get
\* the lock again
notify_all(p) ==
  [p EXCEPT !.workers_ = [w \in Workers |->
       IF p.workers_[w].pc = "waiting" THEN [p.workers_[w] EXCEPT !.pc = "notified"]
       ELSE p.workers_[w]]]

\* nonempty_cond.wait(lock, stop_token, pred) by worker w, which holds the
\* lock: while stop is not requested, return true if pred() and block
\* otherwise; return pred() once stop is requested. Where it returns true,
\* take goes on to entries_.front(); where it returns false, take returns
\* nullopt, the lock is released and drain tests its loop condition.
wait(p, w) ==
  IF p.entries_ # <<>>
  THEN [p EXCEPT !.workers_[w].pc = "front"]
  ELSE IF p.workers_[w].stop
  THEN [p EXCEPT !.workers_[w].pc = "loop", !.mtx_ = NULL]
  ELSE [p EXCEPT !.workers_[w].pc = "waiting", !.mtx_ = NULL]

\* std::jthread::request_stop() on worker w: its stop_token says so from now
\* on, and the condition variable a wait registered with it is notified
request_stop(p, w) == notify_all([p EXCEPT !.workers_[w].stop = TRUE])

\* ------------------------------------------------------------- the driver
State == [frames |-> frames, tasks |-> tasks, sink |-> sink, log |-> log, proc |-> proc]

Become(S, t, out) ==
  /\ frames' = S.frames
  /\ tasks' = S.tasks
  /\ sink' = S.sink
  /\ log' = S.log
  /\ proc' = S.proc
  /\ returned' = [t |-> t, out |-> out]
  /\ UNCHANGED <<sinkFaulty, capture, dispatcher, pool>>

Envs == [sinkOk : IF sinkFaulty THEN BOOLEAN ELSE {TRUE}, ub : {"crash", "noop"}]
TaskIds == 1..MaxTasks

InitCommon ==
  /\ frames = <<>>
  /\ tasks = [t \in TaskIds |-> [alive |-> FALSE, handle |-> NULL]]
  /\ sink = <<>>
  /\ log = <<>>
  /\ proc = "running"
  /\ returned = [t |-> 0, out |-> NoOutcome]
  /\ pool = thread_pool(PoolSize)

\* no call of current() on its own
NoCapture ==
  [phase |-> "none", stk |-> <<>>, depth |-> DEPTH_MAX, prov |-> Working,
   stackTrace |-> <<>>, text |-> <<>>]

\* main of the Dispatcher program before its first call
NoDispatcherCall == [op |-> "none", event |-> 0, out |-> NoOutcome]
InitDispatcher ==
  dispatcher = [d |-> NewDispatcher,
                tokens |-> [k \in 1..MaxTokens |-> NoToken],
                last |-> NoDispatcherCall]

Init == InitCommon /\ sinkFaulty = FALSE /\ capture = NoCapture /\ InitDispatcher
InitFaultySink == InitCommon /\ sinkFaulty = TRUE /\ capture = NoCapture /\ InitDispatcher

\* TracedTask<int> t = body();
Create(t, b, env) ==
  /\ proc = "running"
  /\ ~tasks[t].alive
  /\ Cardinality({h \in 1..Len(frames) : frames[h].parent = 0}) < MaxCreates
  /\ Len(frames) + FrameCount(b) <= MaxFrames
  /\ LET S1 == Call(State, b, 0, <<MainAddr>>, env)
         S2 == IF S1.proc = "running"
               THEN [S1 EXCEPT !.tasks[t] = [alive |-> TRUE, handle |-> Len(frames) + 1]]
               ELSE S1
     IN Become(S2, 0, NoOutcome)

\* TracedTask<int> t;
DefaultConstruct(t) ==
  /\ proc = "running"
  /\ ~tasks[t].alive
  /\ Become([State EXCEPT !.tasks[t] = [alive |-> TRUE, handle |-> NULL]], 0, NoOutcome)

\* t.run();
Run(t, env) ==
  /\ proc = "running"
  /\ tasks[t].alive
  /\ Become(run(State, tasks[t].handle, <<MainAddr>>, env), 0, NoOutcome)

\* t.result();
Result(t) ==
  /\ proc = "running"
  /\ tasks[t].alive
  /\ Become(State, t, result(State, tasks[t].handle, 0))

\* TracedTask<int> t = std::move(u);
MoveConstruct(t, u) ==
  /\ proc = "running"
  /\ ~tasks[t].alive
  /\ tasks[u].alive
  /\ Become(TracedTask_move_ctor(State, t, u), 0, NoOutcome)

\* t = std::move(u);  (u may be t)
MoveAssign(t, u) ==
  /\ proc = "running"
  /\ tasks[t].alive
  /\ tasks[u].alive
  /\ Become(TracedTask_move_assign(State, t, u), 0, NoOutcome)

\* t goes out of scope
Destroy(t) ==
  /\ proc = "running"
  /\ tasks[t].alive
  /\ Become([TracedTask_dtor(State, tasks[t].handle) EXCEPT !.tasks[t] = [alive |-> FALSE, handle |-> NULL]],
            0, NoOutcome)

Next ==
  \/ \E t \in TaskIds, b \in Bodies, env \in Envs : Create(t, b, env)
  \/ \E t \in TaskIds : DefaultConstruct(t)
  \/ \E t \in TaskIds, env \in Envs : Run(t, env)
  \/ \E t \in TaskIds : Result(t)
  \/ \E t, u \in TaskIds : MoveConstruct(t, u)
  \/ \E t, u \in TaskIds : MoveAssign(t, u)
  \/ \E t \in TaskIds : Destroy(t)

Spec == Init /\ [][Next]_vars
SpecFaultySink == InitFaultySink /\ [][Next]_vars

\* --------------------------------------------- capture and format, alone
\* my_backtrace::current<depth>() called through initial_suspend() on a call
\* stack of any code, on any platform, and toString() of what it returned.
RawAddrs == {Addr(fn, <<>>) : fn \in {"coroutine", "main", "stripped", "thunk", "jit", "run"}}
RawStacks == UNION {[1..n -> RawAddrs] : n \in 0..MaxRawFrames}
Depths == 1..(MaxRawFrames + 2) \cup {DEPTH_MAX}

InitTrace ==
  /\ InitCommon
  /\ sinkFaulty = FALSE
  /\ InitDispatcher
  /\ \E stk \in RawStacks, depth \in Depths, prov \in Providers :
       capture = [phase |-> "called", stk |-> stk, depth |-> depth, prov |-> prov,
                  stackTrace |-> <<>>, text |-> <<>>]

\* auto stackTrace = my_backtrace::current<depth>();
CaptureCurrent ==
  /\ capture.phase = "called"
  /\ capture' = [capture EXCEPT !.phase = "captured",
                                !.stackTrace = current(capture.stk, capture.depth, capture.prov)]
  /\ UNCHANGED <<frames, tasks, sink, log, proc, returned, sinkFaulty, dispatcher, pool>>

\* auto text = my_backtrace::toString(stackTrace);
FormatToString ==
  /\ capture.phase = "captured"
  /\ capture' = [capture EXCEPT !.phase = "formatted", !.text = toString(capture.stackTrace)]
  /\ UNCHANGED <<frames, tasks, sink, log, proc, returned, sinkFaulty, dispatcher, pool>>

NextTrace == CaptureCurrent \/ FormatToString

SpecTrace == InitTrace /\ [][NextTrace]_vars

\* ------------------------------------------------- main of the Dispatcher
\* main's calls on the dispatcher and on the tokens it holds (tokens[k]).
\* last is the kind of call main made last ("subscribe", "dispatch", or
\* "token" for a call on a token) and what it gave; the bookkeeping of d
\* (calls, subs) is that of this last call.
InitDispatcherAlone ==
  /\ InitCommon
  /\ sinkFaulty = FALSE
  /\ capture = NoCapture
  /\ InitDispatcher

TokenIds == 1..MaxTokens
DispatcherEnvs == [ub : {"crash", "noop"}]

\* d at the start of a call of main
Fresh == [dispatcher.d EXCEPT !.calls = <<>>, !.subs = <<>>]

DispatcherBecomes(D, tokens, op, e, out) ==
  /\ dispatcher' = [d |-> D, tokens |-> tokens,
                    last |-> [op |-> op, event |-> e, out |-> out]]
  /\ UNCHANGED <<frames, tasks, sink, log, proc, returned, sinkFaulty, capture, pool>>

\* main goes on while the program runs and the ids are within the bound
MainRuns ==
  /\ dispatcher.d.proc = "running"
  /\ dispatcher.d.m_next_listener_id <= MaxListenerIds

CanSubscribe(e, body) ==
  /\ MainRuns
  /\ dispatcher.d.m_next_listener_id < MaxListenerIds
  /\ ~Dispatches(body, e)

\* auto token = dispatcher->subscribe<e>(body);
SubscribeKeep(k, e, body) ==
  /\ CanSubscribe(e, body)
  /\ ~dispatcher.tokens[k].alive
  /\ LET r == subscribe(Fresh, e, body)
     IN DispatcherBecomes(r.D, [dispatcher.tokens EXCEPT ![k] = r.token],
                          "subscribe", e, r.out)

\* dispatcher->subscribe<e>(body).detach();
SubscribeDetach(e, body) ==
  /\ CanSubscribe(e, body)
  /\ LET r == subscribe(Fresh, e, body)
     IN DispatcherBecomes(r.D, dispatcher.tokens, "subscribe", e, r.out)

\* dispatcher->subscribe<e>(body);  (the token dies with the statement)
SubscribeDrop(e, body) ==
  /\ CanSubscribe(e, body)
  /\ LET r == subscribe(Fresh, e, body)
         D == IF r.out.kind = "raise" THEN r.D ELSE unsubscribe(r.D, r.token).D
     IN DispatcherBecomes(D, dispatcher.tokens, "subscribe", e, r.out)

\* std::move(token).detach();
TokenDetach(k) ==
  /\ MainRuns
  /\ dispatcher.tokens[k].alive
  /\ DispatcherBecomes(Fresh, [dispatcher.tokens EXCEPT ![k] = detach(@)],
                       "token", 0, NoOutcome)

\* token.unsubscribe();
TokenUnsubscribe(k) ==
  /\ MainRuns
  /\ dispatcher.tokens[k].alive
  /\ LET r == unsubscribe(Fresh, dispatcher.tokens[k])
     IN DispatcherBecomes(r.D, [dispatcher.tokens EXCEPT ![k] = r.token],
                          "token", 0, NoOutcome)

\* token goes out of scope
TokenDestroy(k) ==
  /\ MainRuns
  /\ dispatcher.tokens[k].alive
  /\ LET r == unsubscribe(Fresh, dispatcher.tokens[k])
     IN DispatcherBecomes(r.D, [dispatcher.tokens EXCEPT ![k] = NoToken],
                          "token", 0, NoOutcome)

\* auto j = std::move(k);
TokenMove(j, k) ==
  /\ MainRuns
  /\ dispatcher.tokens[k].alive
  /\ ~dispatcher.tokens[j].alive
  /\ LET m == Token_move(dispatcher.tokens[k])
     IN DispatcherBecomes(Fresh, [dispatcher.tokens EXCEPT ![j] = m.to, ![k] = m.from],
                          "token", 0, NoOutcome)

\* j = std::move(k);  (defaulted: what j held is overwritten, not unsubscribed)
TokenMoveAssign(j, k) ==
  /\ MainRuns
  /\ j # k
  /\ dispatcher.tokens[k].alive
  /\ dispatcher.tokens[j].alive
  /\ LET m == Token_move(dispatcher.tokens[k])
     IN DispatcherBecomes(Fresh, [dispatcher.tokens EXCEPT ![j] = m.to, ![k] = m.from],
                          "token", 0, NoOutcome)

\* auto n = dispatcher->dispatch(e{});
Dispatch(e, env) ==
  /\ MainRuns
  /\ LET r == dispatch(Fresh, e, env)
     IN DispatcherBecomes(r.D, dispatcher.tokens, "dispatch", e, r.out)

NextDispatcher ==
  \/ \E k \in TokenIds, e \in EventIds, body \in ListenerBodies : SubscribeKeep(k, e, body)
  \/ \E e \in EventIds, body \in ListenerBodies : SubscribeDetach(e, body)
  \/ \E e \in EventIds, body \in ListenerBodies : SubscribeDrop(e, body)
  \/ \E k \in TokenIds : TokenDetach(k)
  \/ \E k \in TokenIds : TokenUnsubscribe(k)
  \/ \E k \in TokenIds : TokenDestroy(k)
  \/ \E j, k \in TokenIds : TokenMove(j, k)
  \/ \E j, k \in TokenIds : TokenMoveAssign(j, k)
  \/ \E e \in EventIds, env \in DispatcherEnvs : Dispatch(e, env)

SpecDispatcher == InitDispatcherAlone /\ [][NextDispatcher]_vars

\* ------------------------------------------------ threads of the thread_pool
\* The steps of main (submit, then the destructor of the pool) and of the
\* workers (drain), interleaved in any order.
PoolBecomes(p) ==
  /\ pool.proc = "running"
  /\ pool' = p
  /\ UNCHANGED <<frames, tasks, sink, log, proc, returned, sinkFaulty, capture, dispatcher>>

\* pool.submit(w), enqueue: std::lock_guard _lock{mtx_}; entries_.push(arg);
Submit ==
  /\ pool.main = "alive"
  /\ pool.submitted < MaxItems
  /\ lockable(pool)
  /\ PoolBecomes([pool EXCEPT !.mtx_ = MainThread,
                              !.entries_ = Append(@, pool.submitted + 1),
                              !.submitted = @ + 1,
                              !.main = "pushed"])

\* enqueue: the end of the scope of _lock
SubmitUnlock ==
  /\ pool.main = "pushed"
  /\ PoolBecomes([pool EXCEPT !.mtx_ = NULL, !.main = "notify"])

\* enqueue: nonempty_cond.notify_all(); and submit returns
SubmitNotify ==
  /\ pool.main = "notify"
  /\ PoolBecomes([notify_all(pool) EXCEPT !.main = "alive"])

\* ~thread_pool(): the members are destroyed in reverse order of declaration,
\* pending_work_ first, then workers_
DestroyPool ==
  /\ pool.main = "alive"
  /\ PoolBecomes([pool EXCEPT !.pending_work_ = FALSE, !.main = "stopping", !.joining = 1])

\* ~jthread() of the worker main destroys: request_stop();
RequestStop ==
  /\ pool.main = "stopping"
  /\ PoolBecomes([request_stop(pool, pool.joining) EXCEPT !.main = "joining"])

\* ~jthread(): join(); returns when the thread has left drain, and main goes
\* on with the next worker
Join ==
  /\ pool.main = "joining"
  /\ pool.workers_[pool.joining].pc = "exited"
  /\ PoolBecomes(IF pool.joining = PoolSize
                 THEN [pool EXCEPT !.main = "destroyed", !.joining = NULL]
                 ELSE [pool EXCEPT !.main = "stopping", !.joining = @ + 1])

\* the thread of worker w starts: drain's parameter pending_work is copied
\* from the member the thread refers to. Undefined behaviour if the member
\* was destroyed: a crash, or a copy of what the member held.
Start(w, env) ==
  /\ pool.workers_[w].pc = "created"
  /\ PoolBecomes(IF ~pool.pending_work_ /\ env.ub = "crash"
                 THEN [pool EXCEPT !.proc = "crashed"]
                 ELSE [pool EXCEPT !.workers_[w].pc = "loop"])

\* drain: while (!stop_token.stop_requested())
DrainLoop(w) ==
  /\ pool.workers_[w].pc = "loop"
  /\ PoolBecomes([pool EXCEPT !.workers_[w].pc =
                    IF pool.workers_[w].stop THEN "exited" ELSE "lock"])

\* take: std::unique_lock lock{mtx_}; and the lock wait takes again when it
\* was notified
TakeLock(w) ==
  /\ pool.workers_[w].pc \in {"lock", "notified"}
  /\ lockable(pool)
  /\ PoolBecomes([pool EXCEPT !.mtx_ = w, !.workers_[w].pc = "wait"])

\* take: nonempty_cond.wait(lock, stop_token, pred)
Wait(w) ==
  /\ pool.workers_[w].pc = "wait"
  /\ PoolBecomes(wait(pool, w))

\* a wait that wakes although nobody notified it
SpuriousWakeup(w) ==
  /\ pool.workers_[w].pc = "waiting"
  /\ PoolBecomes([pool EXCEPT !.workers_[w].pc = "notified"])

\* take: auto const front = std::move(entries_.front());
Front(w) ==
  /\ pool.workers_[w].pc = "front"
  /\ PoolBecomes(IF pool.entries_ = <<>>
                 THEN [pool EXCEPT !.workers_[w].pc = "pop", !.underflow = TRUE]
                 ELSE [pool EXCEPT !.workers_[w].pc = "pop",
                                   !.workers_[w].work = Head(pool.entries_)])

\* take: entries_.pop(); return {front}; the lock is released
Pop(w) ==
  /\ pool.workers_[w].pc = "pop"
  /\ LET work == pool.workers_[w].work
         popped == [pool EXCEPT !.entries_ = IF @ = <<>> THEN @ ELSE Tail(@),
                                !.mtx_ = NULL,
                                !.workers_[w].pc = "work"]
     IN PoolBecomes(IF work = NULL THEN popped
                    ELSE [popped EXCEPT !.taken[work] = @ + 1])

\* drain: if (work) (*work)(); the item runs and returns
Work(w) ==
  /\ pool.workers_[w].pc = "work"
  /\ LET work == pool.workers_[w].work
         back == [pool EXCEPT !.workers_[w].pc = "loop", !.workers_[w].work = NULL]
     IN PoolBecomes(IF work = NULL THEN back
                    ELSE [back EXCEPT !.executed[work] = @ + 1])

\* what worker w does without waiting for another thread
WorkerRuns(w) ==
  \/ \E env \in DispatcherEnvs : Start(w, env)
  \/ DrainLoop(w)
  \/ Wait(w)
  \/ Front(w)
  \/ Pop(w)
  \/ Work(w)

\* what main does once it is inside submit or inside the destructor
MainGoesOn == SubmitUnlock \/ SubmitNotify \/ RequestStop \/ Join

NextPool ==
  \/ Submit
  \/ SubmitUnlock
  \/ SubmitNotify
  \/ DestroyPool
  \/ RequestStop
  \/ Join
  \/ \E w \in Workers, env \in DispatcherEnvs : Start(w, env)
  \/ \E w \in Workers : DrainLoop(w)
  \/ \E w \in Workers : TakeLock(w)
  \/ \E w \in Workers : Wait(w)
  \/ \E w \in Workers : SpuriousWakeup(w)
  \/ \E w \in Workers : Front(w)
  \/ \E w \in Workers : Pop(w)
  \/ \E w \in Workers : Work(w)

SpecPool == Init /\ [][NextPool]_vars

\* every thread that can go on does: a worker is scheduled again and again,
\* gets the mutex if it is free again and again, and main returns from the
\* call it is in
SpecPoolFair ==
  /\ SpecPool
  /\ WF_vars(MainGoesOn)
  /\ \A w \in Workers : WF_vars(WorkerRuns(w)) /\ SF_vars(TakeLock(w))

\* ------------------------------------------------------------- properties
Handles == 1..Len(frames)

\* the calls the sink received for the task with frame h
ReportsOf(h) == {i \in 1..Len(sink) : sink[i].task = h}
Reports(h) == Cardinality(ReportsOf(h))

\* the handles the driver's live task objects hold
Owned(t) == tasks[t].alive /\ tasks[t].handle # NULL

\* the trace a coroutine with body b captures when the driver calls it
DriverTrace(b) == current(<<Addr("coroutine", b), MainAddr>>, DEPTH_MAX, Working)

\* C1: a task whose body awaits nothing and returns a value is ready as soon
\* as it is created, whatever the driver did since (no run() is needed), and
\* result() gives the driver exactly the value the body returned.
C1_EagerValue ==
  \A t \in TaskIds :
    (Owned(t) /\ frames[tasks[t].handle].body[1].op = "return") =>
      LET h == tasks[t].handle
          v == frames[h].body[1].k
      IN /\ is_ready(State, h)
         /\ result(State, h, 0) = Value(v)
         /\ (returned.t = t => returned.out = Value(v))

C1_Witness ==
  \E t \in TaskIds :
    /\ Owned(t)
    /\ frames[tasks[t].handle].body = <<Return(42, 0)>>
    /\ returned = [t |-> t, out |-> Value(42)]

Children(h) == {g \in Handles : frames[g].parent = h}

RECURSIVE AncestorsOrSelf(_)
AncestorsOrSelf(h) == IF h = 0 THEN {} ELSE {h} \cup AncestorsOrSelf(frames[h].parent)

Descendants(h) == {d \in Handles : d # h /\ h \in AncestorsOrSelf(d)}

\* Completed-Failure and Completed-Success
Failed(h) ==
  frames[h].done /\ frames[h].result.tag = "exception" /\ frames[h].result.e # NoExc
Succeeded(h) == frames[h].done /\ frames[h].result.tag = "Success"

AwaitsNothing(b) == \A i \in 1..Len(b) : b[i].op \notin {"await", "awaitEmpty"}

\* the handler around the co_await with which the body of h awaited g
AwaitCatch(h, g) ==
  LET b == frames[h].body
      i == CHOOSE j \in 1..Len(b) : b[j].op = "await" /\ b[j].callee = frames[g].body
  IN b[i].catch

\* does the handler around that co_await catch e
Handles_(h, g, e) == AwaitCatch(h, g) = "std" /\ e.std

\* the failure thrown by the body of o reaches level h and leaves it uncaught
RECURSIVE Escapes(_, _)
Escapes(h, o) ==
  \/ h = o
  \/ \E g \in Children(h) : Escapes(g, o) /\ ~Handles_(h, g, frames[o].result.e)

\* C3: in a chain of nested awaits in which only the innermost body fails,
\* the sink receives exactly one call for every level the failure leaves
\* uncaught and none for any other level of the chain; three levels with no
\* handler give exactly three calls, one per level.
C3_OneReportPerUncaughtLevel ==
  \A o \in Handles :
    (AwaitsNothing(frames[o].body) /\ Failed(o) /\ frames[o].result.e.origin = o) =>
      /\ \A h \in AncestorsOrSelf(o) : Reports(h) = IF Escapes(h, o) THEN 1 ELSE 0
      /\ \A m, t \in Handles :
           ( /\ frames[o].parent = m /\ frames[m].parent = t /\ frames[t].parent = 0
             /\ AwaitCatch(m, o) = "none" /\ AwaitCatch(t, m) = "none" ) =>
             /\ Cardinality({i \in 1..Len(sink) : sink[i].task \in {o, m, t}}) = 3
             /\ Reports(o) = 1 /\ Reports(m) = 1 /\ Reports(t) = 1

C3_Witness ==
  \E o, m, t \in Handles :
    /\ frames[o].parent = m /\ frames[m].parent = t /\ frames[t].parent = 0
    /\ Failed(o) /\ frames[o].result.e.origin = o
    /\ AwaitCatch(m, o) = "none" /\ AwaitCatch(t, m) = "none"
    /\ Len(sink) = 3

ReportsIn(sk, h) == Cardinality({i \in 1..Len(sk) : sk[i].task = h})

\* C5: a task has at most one sink call; it has one exactly when it is in
\* Completed-Failure (none while it is not terminal, when it succeeded, when
\* it was abandoned); and the call is made in the step in which the task
\* becomes terminal, never in a later one.
C5_ReportedOnce ==
  \A h \in Handles : Reports(h) <= 1 /\ (Reports(h) = 1 <=> Failed(h))

C5_ReportedAtTerminalTransition ==
  \A h \in 1..Len(frames') :
    ReportsIn(sink', h) # ReportsIn(sink, h) =>
      /\ h \in Handles => ~frames[h].done
      /\ frames'[h].done

\* C5 (state part and step part together): at most one sink call per task,
\* one exactly in Completed-Failure, made in the step that makes it terminal.
C5_ReportAtMostOnceAtTermination ==
  [](C5_ReportedOnce) /\ [][C5_ReportedAtTerminalTransition]_vars

C5_Witness ==
  \E h, g \in Handles :
    /\ frames[h].parent = 0 /\ Failed(h) /\ Reports(h) = 1 /\ frames[h].destroyed = 1
    /\ frames[g].parent = 0 /\ ~frames[g].done /\ Reports(g) = 0 /\ frames[g].destroyed = 1

\* C6: whenever a body awaits a task that holds a computation, that task is
\* in a terminal state at the moment the awaiting body resumes and retrieves
\* its result, however many suspensions the awaited body had left.
C6_AwaitedTaskIsTerminal ==
  \A i \in 1..Len(log) :
    (log[i].ev = "await_resume" /\ log[i].of # NULL) => log[i].ready

\* C7: result() on a task that is not terminal raises "not completed", and
\* that failure never leads to a sink call, whether result() was called by
\* the driver or by await_resume in the body of another task.
C7_NotCompletedNeverReported ==
  /\ \A t \in TaskIds :
       (returned.t = t /\ tasks[t].alive /\ ~is_ready(State, tasks[t].handle)) =>
          returned.out = Raise(NotCompleted(0))
  /\ \A i \in 1..Len(sink) : sink[i].reason # NotCompleted(0).what

\* C8: the reporter never raises: a sink that fails while a failed task is
\* reported does not stop the program, and the task is in Completed-Failure
\* with the failure its body raised.
C8_SinkFailureSwallowed ==
  /\ proc # "terminated"
  /\ \A i \in 1..Len(sink) : Failed(sink[i].task)

\* C9: destroying a task that is not terminal releases its computation,
\* makes no sink call and runs no step of the body: the frame is left as it
\* was when it suspended, and a released frame never changes again.
C9_DestroyStep ==
  /\ \A t \in TaskIds :
       (Owned(t) /\ ~tasks'[t].alive /\ ~frames[tasks[t].handle].done) =>
          /\ frames'[tasks[t].handle] = [frames[tasks[t].handle] EXCEPT !.destroyed = 1]
          /\ sink' = sink
          /\ log' = log
          /\ proc' = proc
  /\ \A h \in Handles :
       frames[h].destroyed > 0 =>
          /\ frames'[h] = frames[h]
          /\ ReportsIn(sink', h) = ReportsIn(sink, h)

\* C9 as a property of every step: destroying an unfinished task releases
\* its frame, reports nothing and runs nothing, now and ever after.
C9_AbandonedTaskStops == [][C9_DestroyStep]_vars

C9_Witness ==
  \E h \in Handles :
    /\ frames[h].parent = 0
    /\ frames[h].destroyed = 1
    /\ ~frames[h].done
    /\ frames[h].pc = 2
    /\ Reports(h) = 0
    /\ \A t \in TaskIds : ~tasks[t].alive

\* C10: while the program runs, no two task objects hold the same
\* computation; a computation the driver created is released exactly when no
\* task object holds it, and never twice; every temporary task a body awaited
\* has released its computation. A move leaves the moved-from object empty
\* and gives its computation to the target; a self-assignment changes
\* nothing; and a computation is released only by the destruction of the
\* object holding it or by a move-assignment that overwrites that object.
C10_Ownership ==
  proc = "running" =>
    /\ \A t, u \in TaskIds :
         (t # u /\ Owned(t) /\ Owned(u)) => tasks[t].handle # tasks[u].handle
    /\ \A t \in TaskIds : ~tasks[t].alive => tasks[t].handle = NULL
    /\ \A h \in Handles :
         /\ frames[h].destroyed <= 1
         /\ frames[h].parent = 0 =>
              (frames[h].destroyed = 0 <=> \E t \in TaskIds : Owned(t) /\ tasks[t].handle = h)
         /\ frames[h].parent # 0 => frames[h].destroyed = 1

C10_MoveStep ==
  /\ \A t, u \in TaskIds :
       /\ MoveConstruct(t, u) =>
            /\ tasks'[u] = [alive |-> TRUE, handle |-> NULL]
            /\ tasks'[t] = [alive |-> TRUE, handle |-> tasks[u].handle]
            /\ frames' = frames
       /\ (MoveAssign(t, u) /\ t # u) =>
            /\ tasks'[u] = [alive |-> TRUE, handle |-> NULL]
            /\ tasks'[t] = [alive |-> TRUE, handle |-> tasks[u].handle]
       /\ MoveAssign(t, t) => (frames' = frames /\ tasks' = tasks)
  /\ \A h \in Handles :
       (frames[h].parent = 0 /\ frames'[h].destroyed # frames[h].destroyed) =>
          \E t \in TaskIds :
            /\ Owned(t) /\ tasks[t].handle = h
            /\ \/ ~tasks'[t].alive
               \/ \E u \in TaskIds : u # t /\ MoveAssign(t, u)

\* C10 (state part and step part together): exclusive ownership, moved-from
\* objects are empty, every computation is released exactly once.
C10_ExclusiveOwnership == [](C10_Ownership) /\ [][C10_MoveStep]_vars

C10_Witness ==
  \E h, g \in Handles : \E t, u \in TaskIds :
    /\ h # g /\ t # u
    /\ frames[h].parent = 0 /\ frames[g].parent = 0
    /\ frames[h].destroyed = 1 /\ frames[g].destroyed = 0
    /\ tasks[t] = [alive |-> TRUE, handle |-> g]
    /\ tasks[u] = [alive |-> TRUE, handle |-> NULL]
    /\ g < h

\* C11: run() on a task that is already terminal changes nothing: no frame,
\* no stored outcome, no sink call, no event, and the program keeps running.
\* No step ever takes a body back to an earlier instruction, and a terminal
\* frame keeps its position, its outcome and its number of sink calls: a
\* body is executed at most once.
C11_RunStep ==
  /\ \A t \in TaskIds, env \in Envs :
       (Run(t, env) /\ is_ready(State, tasks[t].handle)) =>
          /\ frames' = frames
          /\ tasks' = tasks
          /\ sink' = sink
          /\ log' = log
          /\ proc' = proc
  /\ \A h \in Handles :
       /\ frames'[h].pc >= frames[h].pc
       /\ frames[h].done =>
            /\ frames'[h].done
            /\ frames'[h].pc = frames[h].pc
            /\ frames'[h].result = frames[h].result
            /\ ReportsIn(sink', h) = ReportsIn(sink, h)

\* C11 as a property of every step: a terminal task is never run again.
C11_BodyRunsAtMostOnce == [][C11_RunStep]_vars

\* a task that run() took from its suspension to Completed-Failure, still
\* held by the driver (so that run() can be called on it again)
C11_Witness ==
  \E t \in TaskIds :
    /\ Owned(t)
    /\ frames[tasks[t].handle].body = <<Suspend, Throw(TRUE)>>
    /\ Failed(tasks[t].handle)
    /\ Reports(tasks[t].handle) = 1
    /\ frames[tasks[t].handle].destroyed = 0

\* C12: a task that holds no computation is never resumed: the program never
\* crashes on a resume through a missing handle, and no body gets past
\* await_suspend of a task object whose handle is null (run() on such a task
\* is guarded by its handle test; the await path is the one in question).
C12_MissingComputationNeverResumed ==
  /\ proc # "crashed"
  /\ \A i \in 1..Len(log) : log[i].ev = "await_resume" => log[i].of # NULL

\* C13: a failed task is reported before its failure is re-raised: every
\* await_resume that re-raised the failure of a task comes after the report
\* of that task, a result() that re-raised a failure to the driver found the
\* report already made, and of two reported tasks the awaited one is reported
\* before the one that awaited it (innermost first, outermost last).
C13_ReportBeforeReraise ==
  /\ \A i \in 1..Len(log) :
       ( /\ log[i].ev = "await_resume" /\ log[i].of # NULL
         /\ log[i].ready /\ Failed(log[i].of) ) =>
          \E j \in 1..(i - 1) : log[j].ev = "report" /\ log[j].of = log[i].of
  /\ \A t \in TaskIds :
       (returned.t = t /\ Owned(t) /\ returned.out.kind = "raise" /\ Failed(tasks[t].handle)) =>
          /\ returned.out = Raise(frames[tasks[t].handle].result.e)
          /\ Reports(tasks[t].handle) = 1
  /\ \A i, j \in 1..Len(sink) :
       frames[sink[i].task].parent = sink[j].task => i < j

C13_Witness ==
  \E o, m, t \in Handles : \E d \in TaskIds :
    /\ frames[o].parent = m /\ frames[m].parent = t /\ frames[t].parent = 0
    /\ Failed(o) /\ Failed(m) /\ Failed(t)
    /\ <<sink[1].task, sink[2].task, sink[3].task>> = <<o, m, t>>
    /\ Len(sink) = 3
    /\ tasks[d] = [alive |-> TRUE, handle |-> t]
    /\ returned = [t |-> d, out |-> Raise(frames[o].result.e)]

\* the instruction at which the body of frame h stands
Instruction(h) == frames[h].body[frames[h].pc]

\* C14: a failure of a body never leaves the creation of the task or run():
\* the program is not terminated by it, a body that ended at a throw or at an
\* await whose failure it did not catch has that failure as its stored
\* outcome, a failure that came from another task got into the body through
\* an await_resume of the task it awaited, and the driver is given a failure
\* only by result(), which gives the stored one.
C14_FailureCaptured ==
  /\ proc # "terminated"
  /\ \A h \in Handles :
       /\ (frames[h].done /\ Instruction(h).op = "throw") =>
            (Failed(h) /\ frames[h].result.e = BodyFailure(Instruction(h).std, h))
       /\ (frames[h].done /\ Instruction(h).op \in {"await", "awaitEmpty"}) =>
            /\ Failed(h)
            /\ ~Catches(Instruction(h).catch, frames[h].result.e)
            /\ \E i \in 1..Len(log) :
                 /\ log[i].ev = "await_resume" /\ log[i].by = h
                 /\ frames[h].result.e =
                      IF log[i].ready THEN frames[log[i].of].result.e ELSE NotCompleted(h)
  /\ returned.out.kind = "raise" =>
       /\ returned.t \in TaskIds
       /\ tasks[returned.t].alive
       /\ returned.out = result(State, tasks[returned.t].handle, 0)

C14_Witness ==
  \E t, u \in TaskIds :
    /\ Owned(t) /\ Owned(u)
    /\ frames[tasks[t].handle].body = <<Throw(FALSE)>>
    /\ frames[tasks[u].handle].body = <<Suspend, Suspend, Throw(TRUE)>>
    /\ Failed(tasks[t].handle) /\ Failed(tasks[u].handle)
    /\ returned = [t |-> 0, out |-> NoOutcome]
    /\ proc = "running"

\* C15, state part: the failure a task stores is the one every level gets:
\* a body that awaited a failed task and did not catch stores the very
\* failure the awaited task stores, the awaited task still stores it and
\* still has its one report, and the failure result() gave the driver is the
\* stored one, which a further result() gives again.
C15_SameFailureAtEveryLevel ==
  /\ \A i \in 1..Len(log) :
       ( /\ log[i].ev = "await_resume" /\ log[i].of # NULL
         /\ log[i].ready /\ Failed(log[i].of) ) =>
          LET g == log[i].of
              h == log[i].by
          IN /\ Reports(g) = 1
             /\ ~Handles_(h, g, frames[g].result.e) =>
                  (Failed(h) /\ frames[h].result.e = frames[g].result.e)
  /\ \A t \in TaskIds :
       (returned.t = t /\ Owned(t) /\ Failed(tasks[t].handle)) =>
          /\ returned.out = Raise(frames[tasks[t].handle].result.e)
          /\ result(State, tasks[t].handle, 0) = returned.out

\* C15, step part: result() on a task in Completed-Failure gives the stored
\* failure and changes no frame (outcome, trace), no sink call, no task.
C15_ResultStep ==
  \A t \in TaskIds :
    (Result(t) /\ Owned(t) /\ Failed(tasks[t].handle)) =>
       /\ returned' = [t |-> t, out |-> Raise(frames[tasks[t].handle].result.e)]
       /\ frames' = frames
       /\ tasks' = tasks
       /\ sink' = sink
       /\ log' = log
       /\ proc' = proc

\* C15 (state part and step part together): result() re-raises the same
\* stored failure at every call and every level and changes nothing.
C15_ResultReraisesStoredFailure ==
  [](C15_SameFailureAtEveryLevel) /\ [][C15_ResultStep]_vars

C15_Witness ==
  \E h, g \in Handles : \E t \in TaskIds :
    /\ frames[h].parent = 0 /\ frames[g].parent = h
    /\ frames[g].body = <<Throw(FALSE)>>
    /\ AwaitCatch(h, g) = "std"
    /\ Failed(g) /\ Failed(h)
    /\ frames[h].result.e = Exc("", FALSE, g)
    /\ tasks[t] = [alive |-> TRUE, handle |-> h]
    /\ returned = [t |-> t, out |-> Raise(Exc("", FALSE, g))]
    /\ Reports(h) = 1 /\ Reports(g) = 1

\* the outcome slot of a promise nothing was stored in
Absent == [tag |-> "exception", e |-> NoExc, value |-> 0]

\* C16, state part: the outcome of a task that is not terminal is absent,
\* and a terminal task holds exactly one of a value and a failure.
C16_OutcomeMatchesState ==
  \A h \in Handles :
    /\ ~frames[h].done => frames[h].result = Absent
    /\ frames[h].done => (Succeeded(h) # Failed(h))

\* C16, step part: the outcome of a task changes only in the step in which
\* the task becomes terminal; a step that is a result(), a move or a
\* destruction changes no outcome, and run() changes only the outcome of the
\* task it completes.
C16_OutcomeStep ==
  /\ \A h \in Handles :
       frames'[h].result # frames[h].result => (~frames[h].done /\ frames'[h].done)
  /\ \A h \in 1..Len(frames') :
       h \notin Handles => (frames'[h].result # Absent <=> frames'[h].done)
  /\ \A t, u \in TaskIds :
       (Result(t) \/ MoveConstruct(t, u) \/ MoveAssign(t, u) \/ Destroy(t)) =>
          \A h \in Handles : frames'[h].result = frames[h].result

\* C16 (state part and step part together): the outcome is written at most
\* once, when the task becomes terminal, and by nothing else.
C16_OutcomeWrittenOnce == [](C16_OutcomeMatchesState) /\ [][C16_OutcomeStep]_vars

C16_Witness ==
  \E s, h, g \in Handles : \E t \in TaskIds :
    /\ frames[s].parent = 0 /\ ~frames[s].done /\ frames[s].pc = 2
    /\ frames[s].result = Absent
    /\ frames[h].parent = 0 /\ frames[g].parent = h
    /\ Succeeded(h) /\ Failed(g)
    /\ tasks[t] = [alive |-> TRUE, handle |-> s]
    /\ returned = [t |-> t, out |-> Raise(NotCompleted(0))]

\* the call stack at the creation of frame h: its own code, then the bodies
\* that were running when it was called, then main
RECURSIVE CreationStack(_)
CreationStack(h) ==
  IF h = 0 THEN <<MainAddr>>
  ELSE <<Addr("coroutine", frames[h].body)>> \o CreationStack(frames[h].parent)

\* C17, state part: the trace a task holds is the one of its creation (the
\* stack it was called on), every sink call for a task carries the text of
\* that task's own trace, and that text is not the one of any task below it.
C17_OwnTrace ==
  /\ \A h \in Handles : frames[h].stackTrace = current(CreationStack(h), DEPTH_MAX, Working)
  /\ \A i \in 1..Len(sink) :
       /\ sink[i].stack_trace = toString(frames[sink[i].task].stackTrace)
       /\ \A d \in Descendants(sink[i].task) :
            sink[i].stack_trace # toString(frames[d].stackTrace)

\* C17, step part: no step changes the trace of an existing task.
C17_TraceStep ==
  \A h \in Handles : frames'[h].stackTrace = frames[h].stackTrace

\* C17 (state part and step part together): the trace is captured once, at
\* creation, never changes, and is the one the task is reported with.
C17_TraceFixedAtCreation == [](C17_OwnTrace) /\ [][C17_TraceStep]_vars

C17_Witness ==
  \E h, g \in Handles : \E t, u \in TaskIds :
    /\ frames[h].parent = 0 /\ frames[g].parent = h
    /\ Failed(g) /\ Failed(h) /\ frames[h].result.e.origin = g
    /\ Len(sink) = 2
    /\ sink[1].task = g /\ sink[2].task = h
    /\ sink[2].stack_trace = toString(DriverTrace(frames[h].body))
    /\ sink[1].stack_trace # sink[2].stack_trace
    /\ tasks[t] = [alive |-> TRUE, handle |-> h]
    /\ tasks[u] = [alive |-> TRUE, handle |-> NULL]

\* C18: the text of a trace has one line per frame, in frame order; the line
\* of the i-th frame shows i (counted from 0), the frame's address and its
\* symbol, or "???" when the symbol is unset; it shows "+offset" exactly when
\* the offset is positive and "in module" exactly when the module is known;
\* and the text is the one formatting the same trace gives again.
C18_OneLinePerFrame ==
  capture.phase = "formatted" =>
    LET trace == capture.stackTrace
        text == capture.text
    IN /\ Len(text) = Len(trace)
       /\ text = toString(trace)
       /\ \A i \in 1..Len(trace) :
            LET info == trace[i].symbolicInfo
            IN /\ text[i].index = i - 1
               /\ text[i].address = trace[i].address
               /\ info.symbol # "" => text[i].symbol = info.symbol
               /\ info.symbol = "" => text[i].symbol = "???"
               /\ info.offset > 0 => text[i].plusOffset = <<info.offset>>
               /\ info.offset <= 0 => text[i].plusOffset = <<>>
               /\ info.fileName # "" => text[i].inFile = <<info.fileName>>
               /\ info.fileName = "" => text[i].inFile = <<>>

\* a text of three lines: a symbol with an offset and a module, a "???" with
\* a module and no offset, a "???" alone
C18_Witness ==
  /\ capture.phase = "formatted"
  /\ Len(capture.text) = 3
  /\ capture.text[1].symbol # "???" /\ capture.text[1].plusOffset # <<>> /\ capture.text[1].inFile # <<>>
  /\ capture.text[2].symbol = "???" /\ capture.text[2].plusOffset = <<>> /\ capture.text[2].inFile # <<>>
  /\ capture.text[3].symbol = "???" /\ capture.text[3].plusOffset = <<>> /\ capture.text[3].inFile = <<>>

\* C19: a captured frame whose address resolves to a symbol (dladdr succeeds
\* and gives a symbol name) has as its symbol the demangled name when
\* demangling succeeds, and otherwise the provider's raw text for the frame,
\* which is unset when the provider has none.
C19_DemangledOrRawSymbol ==
  capture.phase # "called" =>
    \A i \in 1..Len(capture.stackTrace) :
      LET a == capture.stackTrace[i].address
          dl_info == dladdr(a)
          dem == cxa_demangle(dl_info.dli_sname)
      IN (dl_info.ok /\ dl_info.dli_sname # "") =>
           capture.stackTrace[i].symbolicInfo.symbol =
             IF dem.status = 0 THEN dem.name ELSE backtrace_symbols(a)

\* the raw frames the provider returned for the capture
RawFrames == backtrace(capture.stk, capture.depth, capture.prov)

\* C20: when the provider returns n raw frames (n at most the depth asked
\* for) and a symbol table, the trace captured is the raw frames at positions
\* 2..n-1 (counted from 0) in the provider's order, max(0, n-2) frames; when
\* it returns no frame or no symbol table, the trace is empty; the capture
\* returns in every case.
C20_SkipsTwoFrames ==
  capture.phase # "called" =>
    LET n == Len(RawFrames)
        trace == capture.stackTrace
    IN /\ n <= capture.depth
       /\ (n > 0 /\ capture.prov.symtab) =>
            /\ Len(trace) = IF n >= 2 THEN n - 2 ELSE 0
            /\ \A k \in 2..(n - 1) : trace[k - 1].address = RawFrames[k + 1]
            /\ \A k \in 1..Len(capture.stk) :
                 k <= Len(trace) => trace[k].address = capture.stk[k]
       /\ (n = 0 \/ ~capture.prov.symtab) => trace = <<>>

\* a capture of four raw frames gave the last two
C20_Witness ==
  /\ capture.phase = "captured"
  /\ Len(RawFrames) = 4
  /\ capture.prov.symtab
  /\ Len(capture.stackTrace) = 2
  /\ capture.stackTrace[1].address = RawFrames[3]
  /\ capture.stackTrace[2].address = RawFrames[4]
  /\ RawFrames[3] # RawFrames[4]

\* every co_await of body b is on a task that holds a computation
AwaitsOnlyTasks(b) == \A i \in 1..Len(b) : b[i].op \notin {"suspend", "awaitEmpty"}

\* the task the driver created, at the top of the chain frame h belongs to
RECURSIVE Outermost(_)
Outermost(h) == IF frames[h].parent = 0 THEN h ELSE Outermost(frames[h].parent)

\* C23, state part: while the program runs, a task whose body awaits only
\* tasks that hold a computation is terminal in every state the driver can
\* observe, from the return of its creation on.
C23_TerminalAtCreation ==
  proc = "running" =>
    \A h \in Handles : AwaitsOnlyTasks(frames[h].body) => frames[h].done

\* C23, step part: every sink call for a task of the chain of such a task is
\* made in the step that creates the outermost task, and run() on such a
\* task changes no frame and causes no sink call and no event.
C23_ChainStep ==
  /\ \A d \in 1..Len(frames') :
       ( /\ proc' = "running"
         /\ AwaitsOnlyTasks(frames'[Outermost(d)'].body)
         /\ ReportsIn(sink', d) # ReportsIn(sink, d) ) =>
          (d \notin Handles /\ Outermost(d)' \notin Handles)
  /\ \A t \in TaskIds, env \in Envs :
       (Run(t, env) /\ Owned(t) /\ AwaitsOnlyTasks(frames[tasks[t].handle].body)) =>
          (frames' = frames /\ sink' = sink /\ log' = log /\ proc' = proc)

\* C23 (state part and step part together): a task that awaits only tasks
\* holding a computation is never seen suspended, is reported with its chain
\* during the creation, and is not resumed by run().
C23_NeverObservedSuspended == [](C23_TerminalAtCreation) /\ [][C23_ChainStep]_vars

C23_Witness ==
  \E t, m, o \in Handles : \E d \in TaskIds :
    /\ frames[t].parent = 0 /\ frames[m].parent = t /\ frames[o].parent = m
    /\ AwaitCatch(t, m) = "std" /\ AwaitCatch(m, o) = "none"
    /\ frames[o].body = <<Throw(TRUE)>>
    /\ Succeeded(t) /\ Failed(m) /\ Failed(o)
    /\ Len(sink) = 2
    /\ tasks[d] = [alive |-> TRUE, handle |-> t]
    /\ returned = [t |-> 0, out |-> NoOutcome]

\* --------------------------------------------------- Dispatcher properties
\* C21: every subscribe call made by a listener, that is while some dispatch
\* is iterating, threw IllegalSubscribeException and registered nothing,
\* also when a listener called dispatch before it.
C21_SubscribeInListenerThrows ==
  \A i \in 1..Len(dispatcher.d.subs) :
    dispatcher.d.subs[i].depth > 0 =>
      (dispatcher.d.subs[i].threw /\ dispatcher.d.subs[i].id = 0)


\* the ids of the listeners registered for event type e, in order
Registered(e) ==
  [i \in 1..Len(dispatcher.d.m_listeners[e]) |-> dispatcher.d.m_listeners[e][i].id]
RegisteredIds ==
  UNION {{Registered(e)[i] : i \in 1..Len(Registered(e))} : e \in EventIds}

\* token k refers to a registered listener it would remove when it dies
Subscribed(k) ==
  /\ dispatcher.tokens[k].alive
  /\ dispatcher.tokens[k].m_dispatcher
  /\ ~dispatcher.tokens[k].m_detached

\* C22, state part: a listener id is registered at most once and is one the
\* dispatcher gave out, and a dispatch invokes only listeners that are
\* registered: a removed listener is invoked by no later dispatch.
C22_OnlyRegisteredInvoked ==
  /\ \A e, f \in EventIds :
       \A i \in 1..Len(dispatcher.d.m_listeners[e]), j \in 1..Len(dispatcher.d.m_listeners[f]) :
         /\ (Registered(e)[i] = Registered(f)[j]) => (e = f /\ i = j)
         /\ Registered(e)[i] \in 1..dispatcher.d.m_next_listener_id
  /\ \A c \in 1..Len(dispatcher.d.calls) : dispatcher.d.calls[c].id \in RegisteredIds

\* C22, step part: the end of the life of a token that refers to a listener
\* and was not detached removes that listener and no other; the end of the
\* life of a detached (or moved-from) token removes nothing; a listener that
\* was removed is never registered again.
C22_TokenStep ==
  /\ \A k \in TokenIds :
       TokenDestroy(k) =>
         \A e \in EventIds :
           dispatcher'.d.m_listeners[e] =
             IF Subscribed(k) /\ e = dispatcher.tokens[k].m_event_id
             THEN SelectSeq(dispatcher.d.m_listeners[e],
                            LAMBDA l : l.id # dispatcher.tokens[k].m_listener_id)
             ELSE dispatcher.d.m_listeners[e]
  /\ \A id \in 1..dispatcher.d.m_next_listener_id :
       id \notin RegisteredIds => id \notin RegisteredIds'

\* C22 (state part and step part together): a token that dies removes its
\* listener, and only it, unless it was detached.
C22_TokenRemovesItsListener == [](C22_OnlyRegisteredInvoked) /\ [][C22_TokenStep]_vars

\* as in main of the source: the listener whose token died is gone, the
\* detached one, which no token refers to any more, stayed and was invoked
C22_Witness ==
  /\ Registered(MouseClicked) = <<1>>
  /\ dispatcher.d.m_next_listener_id = 2
  /\ \A k \in TokenIds : ~Subscribed(k)
  /\ dispatcher.last = [op |-> "dispatch", event |-> MouseClicked, out |-> Value(1)]
  /\ dispatcher.d.calls = <<[id |-> 1, event |-> MouseClicked, depth |-> 1]>>

\* C24: between two calls of main no dispatch is in progress, and then
\* is_dispatching is false and a subscribe main made did not throw, also
\* after a dispatch that a listener left with an exception.
C24_FlagClearOutsideDispatch ==
  dispatcher.d.proc = "running" =>
    /\ ~dispatcher.d.is_dispatching
    /\ dispatcher.last.op = "subscribe" => dispatcher.last.out.kind # "raise"

\* the listeners of e's type that one call dispatch(e) of main invoked itself
DirectCalls(D) == SelectSeq(D.calls, LAMBDA c : c.depth = 1)

\* C25: a dispatch(e) that returned to main invoked the listeners that were
\* subscribed to e's type when it was called, each once and in subscription
\* order, and no listener of another type, and returned their number.
C25_DispatchStep ==
  \A e \in EventIds, env \in DispatcherEnvs :
    (Dispatch(e, env) /\ dispatcher'.last.out.kind = "value") =>
      /\ DirectCalls(dispatcher'.d) =
           [i \in 1..Len(dispatcher.d.m_listeners[e]) |->
              [id |-> dispatcher.d.m_listeners[e][i].id, event |-> e, depth |-> 1]]
      /\ dispatcher'.last.out.value = Len(DirectCalls(dispatcher'.d))
C25_InvokesSubscribedInOrder == [][C25_DispatchStep]_vars

\* --------------------------------------------------- thread_pool properties
\* C26: whatever the order of the steps of main and of the workers, an item
\* is taken from the queue at most once, is held by at most one worker, is
\* executed at most once and only after it was submitted, and no worker
\* reads the front of an empty queue.
C26_EachItemTakenOnce ==
  /\ ~pool.underflow
  /\ \A i \in Items :
       /\ pool.taken[i] <= 1
       /\ pool.executed[i] <= pool.taken[i]
       /\ pool.taken[i] > 0 => i <= pool.submitted
       /\ Cardinality({w \in Workers : pool.workers_[w].work = i}) <= 1
  /\ \A w \in Workers :
       pool.workers_[w].pc \in {"front", "pop"} =>
         (pool.mtx_ = w /\ pool.entries_ # <<>>)

\* the two workers took one item each and are executing them at the same time
C26_Witness ==
  /\ pool.submitted = 2
  /\ pool.workers_[1].pc = "work" /\ pool.workers_[2].pc = "work"
  /\ {pool.workers_[1].work, pool.workers_[2].work} = {1, 2}
  /\ pool.entries_ = <<>>

\* the pool is alive: main is not in its destructor
PoolAlive == pool.main \in {"alive", "pushed", "notify"}

\* C27: as long as the pool is not being destroyed, an item that was pushed
\* on the queue is eventually executed by a worker, when every thread that
\* can go on does.
C27_SubmittedEventuallyExecuted ==
  \A i \in Items :
    (PoolAlive /\ i <= pool.submitted) ~> (pool.executed[i] > 0 \/ ~PoolAlive)

\* every item was submitted and executed while the pool was alive, and the
\* workers are back in wait on the empty queue
C27_Witness ==
  /\ pool.main = "alive"
  /\ pool.executed = [i \in Items |-> 1]
  /\ \A w \in Workers : pool.workers_[w].pc = "waiting"

\* C28: once main is in the destructor of the pool, every worker leaves
\* drain, every join returns and the destructor ends.
C28_DestructionTerminates ==
  (pool.main \in {"stopping", "joining"}) ~> (pool.main = "destroyed")

====
